---- MODULE Spec2Model ----
(***************************************************************************)
(* A model of the population / fitness / reproduction subsystem of         *)
(* model_functions.py: a population of seeds (binary grids), each seed     *)
(* carrying its row of the pairwise history matrix and of the similarity   *)
(* matrix, and the reproduction operators that overwrite the least fit     *)
(* seed and rebuild its row and column.                                    *)
(*                                                                         *)
(* Grids are sequences of columns: cells[x][y] of the source, with x in    *)
(* 0..xspan-1 and y in 0..yspan-1, is cells[x+1][y+1] here.  Population    *)
(* addresses are 0..pop_size-1 as in the source.                           *)
(*                                                                         *)
(* Scores are kept exactly: a history entry is a number of units of        *)
(* 1/(2*num_trials), so One is 1.0 and Half is 0.5.  A similarity is the   *)
(* fraction <<num_agree, area>>; 0.0 is <<0, 1>> and 1.0 is <<1, 1>>.      *)
(***************************************************************************)
EXTENDS Integers, Sequences, FiniteSets, TLC

(***************************************************************************)
(* Configuration (model_parameters) and the bounds of the model.           *)
(***************************************************************************)
pop_size == 3
num_trials == 1
tournament_size == 1
max_seed_area == 6
min_s_xspan == 1
fusion_test_flag == 0
s_xspan == 2
s_yspan == 1
min_similarity == <<1, 2>>
max_similarity == <<1, 1>>

\* the largest number of reproduction events of one run
MaxBirths == 1
\* the largest number of bits one call of flip_bits flips
MaxFlips == 1
\* the largest number of quarter turns of random_rotate
MaxTurns == 1
\* the largest number of trials score_pair is run with on its own
MaxTrials == 3
\* the largest live-cell count a seed is given when score_pair runs on its own
MaxLiving == 2
\* the largest spans of the seeds that functions run on their own are given
CallXspan == 3
CallYspan == 2
\* the largest min_s_xspan that fission run on its own is given
CallMinXspan == 2

One == 2 * num_trials
Half == num_trials
Addresses == 0 .. (pop_size - 1)

VARIABLES
  pop,       \* the population: address -> seed
  n,         \* the number of children born so far (the n of every operator)
  crashed,   \* TRUE once an assertion or an exception has ended the run
  mparam,    \* the options that vary between runs
  event,     \* what the last reproduction event did
  stale,     \* matrix entries of an overwritten slot not yet recomputed
  fusion_log,\* the tuples appended to fusion_storage.bin
  sp,        \* the state of score_pair run on its own
  call,      \* the last call of a function run on its own, with its result
  race,      \* two replacements taken step by step: their positions and marks
  walk       \* one reproduction call followed from operator to operator

vars == <<pop, n, crashed, mparam, event, stale, fusion_log, sp, call, race, walk>>

(***************************************************************************)
(* Arithmetic helpers.                                                     *)
(***************************************************************************)
RECURSIVE SumSeq(_)
SumSeq(q) == IF q = <<>> THEN 0 ELSE Head(q) + SumSeq(Tail(q))

RECURSIVE SumFun(_, _)
SumFun(f, D) ==
  IF D = {} THEN 0
  ELSE LET d == CHOOSE d \in D : TRUE IN f[d] + SumFun(f, D \ {d})

Max(a, b) == IF a > b THEN a ELSE b

\* the function f with f[a] replaced by v
Upd(f, a, v) == [b \in DOMAIN f |-> IF b = a THEN v ELSE f[b]]

\* fractions <<p, q>> with q > 0
RatEq(a, b) == a[1] * b[2] = b[1] * a[2]
RatLeq(a, b) == a[1] * b[2] <= b[1] * a[2]

(***************************************************************************)
(* The Seed class.                                                         *)
(***************************************************************************)
\* Seed(xspan, yspan, pop_size): all cells dead, empty records
Seed(xspan, yspan, size) ==
  [xspan |-> xspan, yspan |-> yspan,
   cells |-> [x \in 1 .. xspan |-> [y \in 1 .. yspan |-> 0]],
   num_living |-> 0, address |-> 0,
   history |-> [a \in 0 .. (size - 1) |-> 0],
   similarities |-> [a \in 0 .. (size - 1) |-> <<0, 1>>]]

Positions(s) == (1 .. s.xspan) \X (1 .. s.yspan)

\* Seed.count_ones
count_ones(s) == Cardinality({xy \in Positions(s) : s.cells[xy[1]][xy[2]] # 0})

\* Seed.fitness: the mean of the history row; every row has pop_size entries,
\* so the sum (in units of 1/(2*num_trials*pop_size)) orders seeds as the mean does
fitness(s) == SumFun(s.history, DOMAIN s.history)

\* Seed.flip_bits with the set F of positions that the random draws flip
flip_bits(s, F) ==
  [s EXCEPT !.cells = [x \in 1 .. s.xspan |-> [y \in 1 .. s.yspan |->
     IF <<x, y>> \in F THEN 1 - s.cells[x][y] ELSE s.cells[x][y]]]]

FlipSets(s) == {F \in SUBSET Positions(s) : Cardinality(F) <= MaxFlips}

(***************************************************************************)
(* similarity, score_pair and the two ledger updates.                      *)
(***************************************************************************)
\* similarity that counts only the positions where both cells are alive
similarity_live_only(seed0, seed1) ==
  IF seed0.xspan # seed1.xspan THEN <<0, 1>>
  ELSE IF seed0.yspan # seed1.yspan THEN <<0, 1>>
  ELSE <<Cardinality({xy \in Positions(seed0) :
            seed0.cells[xy[1]][xy[2]] = 1 /\ seed1.cells[xy[1]][xy[2]] = 1}),
         seed0.xspan * seed0.yspan>>

similarity(seed0, seed1) ==
  IF seed0.xspan # seed1.xspan THEN <<0, 1>>
  ELSE IF seed0.yspan # seed1.yspan THEN <<0, 1>>
  ELSE <<Cardinality({xy \in Positions(seed0) :
            seed0.cells[xy[1]][xy[2]] = seed1.cells[xy[1]][xy[2]]}),
         seed0.xspan * seed0.yspan>>

\* one trial in which a tie gives each seed a whole point
TrialPoints_tie_full_point(living1, living2, count1, count2) ==
  LET c1 == IF living1 < count1 THEN count1 - living1 ELSE 0
      c2 == IF living2 < count2 THEN count2 - living2 ELSE 0
  IN  IF c1 > c2 THEN <<2, 0>>
      ELSE IF c2 > c1 THEN <<0, 2>>
      ELSE <<2, 2>>

\* one trial with the growth of a seed not floored at 0
TrialPoints_unfloored(living1, living2, count1, count2) ==
  LET c1 == count1 - living1
      c2 == count2 - living2
  IN  IF c1 > c2 THEN <<2, 0>>
      ELSE IF c2 > c1 THEN <<0, 2>>
      ELSE <<1, 1>>

\* one trial of score_pair: the points (in halves) that the post-run counts
\* count1 and count2 give to seeds with living1 and living2 cells
TrialPoints(living1, living2, count1, count2) ==
  LET c1 == IF living1 < count1 THEN count1 - living1 ELSE 0
      c2 == IF living2 < count2 THEN count2 - living2 ELSE 0
  IN  IF c1 > c2 THEN <<2, 0>>
      ELSE IF c2 > c1 THEN <<0, 2>>
      ELSE <<1, 1>>

RECURSIVE SumPoints(_, _, _)
SumPoints(living1, living2, counts) ==
  IF counts = <<>> THEN <<0, 0>>
  ELSE LET pt == TrialPoints(living1, living2, Head(counts)[1], Head(counts)[2])
           r == SumPoints(living1, living2, Tail(counts))
       IN  <<pt[1] + r[1], pt[2] + r[2]>>

\* score_pair with the simulator's post-run counts of its trials, counts[t] =
\* <<count1, count2>>; the scores are in units of 1/(2 * Len(counts))
score_pair(seed1, seed2, counts) ==
  IF ~(seed1.num_living > 0) \/ ~(seed2.num_living > 0)
  THEN [ok |-> FALSE, score1 |-> 0, score2 |-> 0]
  ELSE LET pts == SumPoints(seed1.num_living, seed2.num_living, counts)
       IN  [ok |-> TRUE, score1 |-> pts[1], score2 |-> pts[2]]

\* the post-run counts the simulator may report for one trial of two seeds
TrialCounts(seed1, seed2) ==
  {0, seed1.num_living + 1} \X {0, seed2.num_living + 1}

CountSeqs(seed1, seed2) == [1 .. num_trials -> TrialCounts(seed1, seed2)]

\* seed s with entry j of its history (of its similarities) set to v
SetHistory(s, j, v) == [s EXCEPT !.history = Upd(s.history, j, v)]
SetSimilarity(s, j, v) == [s EXCEPT !.similarities = Upd(s.similarities, j, v)]

\* update_history without the branch for i = j: the diagonal is scored
update_history_no_diagonal(p, i, j, counts) ==
  LET r == score_pair(p[i], p[j], counts)
  IN  IF ~r.ok THEN [ok |-> FALSE, calls |-> 1, pop |-> p]
      ELSE [ok |-> TRUE, calls |-> 1,
            pop |-> Upd(Upd(p, i, SetHistory(p[i], j, r.score1)),
                       j, SetHistory(p[j], i, r.score2))]

\* update_history that stores the score of seed i in both entries
update_history_same_score(p, i, j, counts) ==
  IF i = j
  THEN [ok |-> TRUE, calls |-> 0,
        pop |-> Upd(p, i, SetHistory(p[i], i, Half))]
  ELSE LET r == score_pair(p[i], p[j], counts)
       IN  IF ~r.ok THEN [ok |-> FALSE, calls |-> 1, pop |-> p]
           ELSE [ok |-> TRUE, calls |-> 1,
                 pop |-> Upd(Upd(p, i, SetHistory(p[i], j, r.score1)),
                            j, SetHistory(p[j], i, r.score1))]

\* update_history that stores the score of seed j in the entry next to i
update_history_shifted_column(p, i, j, counts) ==
  IF i = j
  THEN [ok |-> TRUE, calls |-> 0,
        pop |-> Upd(p, i, SetHistory(p[i], i, Half))]
  ELSE LET r == score_pair(p[i], p[j], counts)
       IN  IF ~r.ok THEN [ok |-> FALSE, calls |-> 1, pop |-> p]
           ELSE [ok |-> TRUE, calls |-> 1,
                 pop |-> Upd(Upd(p, i, SetHistory(p[i], j, r.score1)),
                            j, SetHistory(p[j], (i + 1) % pop_size, r.score2))]

\* s2.red2blue() applied to the seed instead of a copy of it
recoloured(s) ==
  [s EXCEPT !.cells = [x \in 1 .. s.xspan |->
                         [y \in 1 .. s.yspan |-> IF s.cells[x][y] = 1 THEN 2 ELSE 0]]]

\* update_history over a score_pair that works on the seeds themselves
update_history_on_originals(p, i, j, counts) ==
  IF i = j
  THEN [ok |-> TRUE, calls |-> 0,
        pop |-> Upd(p, i, SetHistory(p[i], i, Half))]
  ELSE LET r == score_pair(p[i], p[j], counts)
       IN  IF ~r.ok THEN [ok |-> FALSE, calls |-> 1, pop |-> p]
           ELSE [ok |-> TRUE, calls |-> 1,
                 pop |-> Upd(Upd(p, i, SetHistory(p[i], j, r.score1)),
                            j, recoloured(SetHistory(p[j], i, r.score2)))]

update_history(p, i, j, counts) ==
  IF i = j
  THEN [ok |-> TRUE, calls |-> 0,
        pop |-> Upd(p, i, SetHistory(p[i], i, Half))]
  ELSE LET r == score_pair(p[i], p[j], counts)
       IN  IF ~r.ok THEN [ok |-> FALSE, calls |-> 1, pop |-> p]
           ELSE [ok |-> TRUE, calls |-> 1,
                 pop |-> Upd(Upd(p, i, SetHistory(p[i], j, r.score1)),
                            j, SetHistory(p[j], i, r.score2))]

\* update_similarity that stores the row entry only
update_similarity_row_only(p, i, j) ==
  IF i = j
  THEN Upd(p, i, SetSimilarity(p[i], i, <<1, 1>>))
  ELSE Upd(p, i, SetSimilarity(p[i], j, similarity(p[i], p[j])))

update_similarity(p, i, j) ==
  IF i = j
  THEN Upd(p, i, SetSimilarity(p[i], i, <<1, 1>>))
  ELSE LET sim == similarity(p[i], p[j])
       IN  Upd(Upd(p, i, SetSimilarity(p[i], j, sim)),
               j, SetSimilarity(p[j], i, sim))

(***************************************************************************)
(* Choosing seeds.                                                         *)
(***************************************************************************)
\* the list pop[0], ..., pop[pop_size-1]
PopList(p) == [k \in 1 .. pop_size |-> p[k - 1]]

RECURSIVE BestFrom(_, _, _)
BestFrom(sample, k, best) ==
  IF k > Len(sample) THEN best
  ELSE IF fitness(sample[k]) > fitness(best)
       THEN BestFrom(sample, k + 1, sample[k])
       ELSE BestFrom(sample, k + 1, best)

find_best_seed(sample) == BestFrom(sample, 1, sample[1])

RECURSIVE WorstFrom(_, _, _)
WorstFrom(sample, k, worst) ==
  IF k > Len(sample) THEN worst
  ELSE IF fitness(sample[k]) < fitness(worst)
       THEN WorstFrom(sample, k + 1, sample[k])
       ELSE WorstFrom(sample, k + 1, worst)

\* find_worst_seed with <= for <: the last of the least fit seeds
find_worst_seed_last(sample) ==
  sample[CHOOSE k \in 1 .. Len(sample) :
           /\ \A m \in 1 .. Len(sample) : fitness(sample[k]) <= fitness(sample[m])
           /\ \A m \in (k + 1) .. Len(sample) :
                fitness(sample[m]) > fitness(sample[k])]

find_worst_seed(sample) == WorstFrom(sample, 1, sample[1])

\* random_sample that draws every member of the sample anew
random_sample_with_repeats(population, sample_size) ==
  IF ~(Len(population) > sample_size) \/ ~(sample_size > 0) THEN {}
  ELSE {[k \in 1 .. sample_size |-> population[f[k]]] :
          f \in [1 .. sample_size -> 1 .. Len(population)]}

\* random_sample: the samples that the random keys can give; {} when an
\* assertion fails
random_sample(population, sample_size) ==
  IF ~(Len(population) > sample_size) \/ ~(sample_size > 0) THEN {}
  ELSE {[k \in 1 .. sample_size |-> population[f[k]]] :
          f \in {g \in [1 .. sample_size -> 1 .. Len(population)] :
                   \A a, b \in 1 .. sample_size : a # b => g[a] # g[b]}}

(***************************************************************************)
(* Seed.mutate, Seed.random_rotate and Seed.shuffle.                       *)
(***************************************************************************)
\* the cells a grown row or column is filled with
GrowFills == {0, 1}

\* Seed.grow: one more column or one more row
grow(s) ==
  {[s EXCEPT !.xspan = s.xspan + 1,
             !.cells = s.cells \o <<[y \in 1 .. s.yspan |-> v]>>] : v \in GrowFills}
  \cup
  {[s EXCEPT !.yspan = s.yspan + 1,
             !.cells = [x \in 1 .. s.xspan |-> s.cells[x] \o <<v>>]] : v \in GrowFills}

\* Seed.shrink: one column or one row less, never down to no cells
shrink(s) ==
  (IF s.xspan > 1
   THEN {[s EXCEPT !.xspan = s.xspan - 1,
                   !.cells = SubSeq(s.cells, 1, s.xspan - 1)]}
   ELSE {})
  \cup
  (IF s.yspan > 1
   THEN {[s EXCEPT !.yspan = s.yspan - 1,
                   !.cells = [x \in 1 .. s.xspan |->
                                SubSeq(s.cells[x], 1, s.yspan - 1)]]}
   ELSE {})

\* Seed.mutate: the mutated copies that the random draws can give
mutate(s) ==
  {flip_bits(s, F) : F \in FlipSets(s)} \cup grow(s) \cup shrink(s)

\* a quarter turn: the rotated grid has xspan and yspan exchanged
Turn(s) ==
  [s EXCEPT !.xspan = s.yspan, !.yspan = s.xspan,
            !.cells = [x \in 1 .. s.yspan |-> [y \in 1 .. s.xspan |->
                         s.cells[y][s.yspan + 1 - x]]]]

\* Seed.random_rotate: the copies turned by up to MaxTurns quarter turns
RECURSIVE Turned(_, _)
Turned(s, k) == IF k = 0 THEN s ELSE Turn(Turned(s, k - 1))

random_rotate(s) == {Turned(s, k) : k \in 0 .. MaxTurns}

\* Seed.shuffle: the copies with the same cells in another order
shuffle(s) ==
  {[s EXCEPT !.cells = c] :
     c \in {d \in [1 .. s.xspan -> [1 .. s.yspan -> {0, 1}]] :
              count_ones([s EXCEPT !.cells = d]) = count_ones(s)}}

(***************************************************************************)
(* A reproduction event.  Every operator maps the state of the event so    *)
(* far to the set of states in which it can end.                           *)
(***************************************************************************)
NewEvent(p, lg) ==
  [pop |-> p, crashed |-> FALSE, path |-> <<>>, installs |-> <<>>,
   calls |-> 0, stale |-> {}, log |-> lg, infeasible |-> <<>>,
   symbiosis |-> "none", draw |-> -1, mating |-> <<>>]

Enter(ev, name) == [ev EXCEPT !.path = Append(ev.path, name)]

Crash(ev) == [ev EXCEPT !.crashed = TRUE]

Infeasible(ev, why) == [ev EXCEPT !.infeasible = Append(ev.infeasible, why)]

\* every entry of row i and of column i of both matrices
Entries(i) ==
  {<<m, i, j>> : m \in {"history", "similarities"}, j \in Addresses}
  \cup {<<m, j, i>> : m \in {"history", "similarities"}, j \in Addresses}

\* what a seed is apart from its records: its spans, cells and live count
Grid(s) == [xspan |-> s.xspan, yspan |-> s.yspan, cells |-> s.cells,
            num_living |-> s.num_living]

\* s.num_living = s.count_ones()
recount(s) == [s EXCEPT !.num_living = count_ones(s)]

\* pop[i] = s1 without s1.address = i
install_keep_address(p, i, s1) == Upd(p, i, s1)

\* s1.address = i; pop[i] = s1
install(p, i, s1) == Upd(p, i, [s1 EXCEPT !.address = i])

\* for j in range(pop_size): update_history(...); update_similarity(...)
RECURSIVE rebuild(_, _, _)
RebuildStep(ev, i, j, counts) ==
  LET h == update_history(ev.pop, i, j, counts)
  IN  IF ~h.ok
      THEN {Crash([ev EXCEPT !.calls = ev.calls + h.calls])}
      ELSE rebuild([ev EXCEPT
                      !.pop = update_similarity(h.pop, i, j),
                      !.calls = ev.calls + h.calls,
                      !.stale = ev.stale \ {<<"history", i, j>>, <<"history", j, i>>,
                                   <<"similarities", i, j>>, <<"similarities", j, i>>}],
                   i, j + 1)

rebuild(ev, i, j) ==
  IF ~(j < pop_size) THEN {ev}
  ELSE UNION {RebuildStep(ev, i, j, counts) :
                counts \in IF i = j THEN {<<>>} ELSE CountSeqs(ev.pop[i], ev.pop[j])}

\* the block that ends every operator: find the least fit seed, put the child
\* in its place and rebuild the child's history and similarities
replace_worst(ev, child) ==
  LET worst == find_worst_seed(PopList(ev.pop))
      i == worst.address
      fit == [a \in Addresses |-> fitness(ev.pop[a])]
  IN  rebuild([ev EXCEPT
                 !.pop = install(ev.pop, i, child),
                 !.installs = Append(ev.installs,
                                     [addr |-> i, fit |-> fit,
                                      by |-> ev.path[Len(ev.path)],
                                      grid |-> Grid(child)]),
                 !.stale = ev.stale \cup Entries(i)],
              i, 0)

(***************************************************************************)
(* The reproduction operators.                                             *)
(***************************************************************************)
\* find_similar_seeds: the list of the members i of pop, in address order,
\* with lo <= target_seed.similarities[i] <= hi and i # target_seed.address
\* the search without the test target_seed.address != i
RECURSIVE SimilarFrom_with_self(_, _, _, _, _)
SimilarFrom_with_self(target_seed, p, lo, hi, i) ==
  IF ~(i < pop_size) THEN <<>>
  ELSE (IF /\ RatLeq(lo, target_seed.similarities[i])
           /\ RatLeq(target_seed.similarities[i], hi)
        THEN <<p[i]>> ELSE <<>>)
       \o SimilarFrom_with_self(target_seed, p, lo, hi, i + 1)

RECURSIVE SimilarFrom(_, _, _, _, _)
SimilarFrom(target_seed, p, lo, hi, i) ==
  IF ~(i < pop_size) THEN <<>>
  ELSE (IF /\ RatLeq(lo, target_seed.similarities[i])
           /\ RatLeq(target_seed.similarities[i], hi)
           /\ target_seed.address # i
        THEN <<p[i]>> ELSE <<>>)
       \o SimilarFrom(target_seed, p, lo, hi, i + 1)

\* find_similar_seeds without the lower limit of the similarity
find_similar_seeds_no_floor(target_seed, p, lo, hi) ==
  SimilarFrom(target_seed, p, <<0, 1>>, hi, 0)

find_similar_seeds(target_seed, p, lo, hi) == SimilarFrom(target_seed, p, lo, hi, 0)

\* the child made with the spans exchanged
Crossed_transposed(seed0, seed1, swap, axis, split) ==
  LET s0 == IF swap THEN seed1 ELSE seed0
      s1 == IF swap THEN seed0 ELSE seed1
      child == Seed(seed0.yspan, seed0.xspan, pop_size)
  IN  [child EXCEPT !.cells = [x \in 1 .. seed0.xspan |-> [y \in 1 .. seed0.yspan |->
         IF axis = "y"
         THEN (IF (y - 1) <= split THEN s0.cells[x][y] ELSE s1.cells[x][y])
         ELSE (IF (x - 1) <= split THEN s0.cells[x][y] ELSE s1.cells[x][y])]]]

\* the child of mate for one draw: swap exchanges the parents, axis is "y" or
\* "x", split is the split point (rows or columns 0..split come from s0)
Crossed(seed0, seed1, swap, axis, split) ==
  LET s0 == IF swap THEN seed1 ELSE seed0
      s1 == IF swap THEN seed0 ELSE seed1
      child == Seed(seed0.xspan, seed0.yspan, pop_size)
  IN  [child EXCEPT !.cells = [x \in 1 .. seed0.xspan |-> [y \in 1 .. seed0.yspan |->
         IF axis = "y"
         THEN (IF (y - 1) <= split THEN s0.cells[x][y] ELSE s1.cells[x][y])
         ELSE (IF (x - 1) <= split THEN s0.cells[x][y] ELSE s1.cells[x][y])]]]

\* mate: the children that the random draws can give; ok is FALSE where an
\* assertion fails
mate(seed0, seed1) ==
  IF seed0.xspan # seed1.xspan \/ seed0.yspan # seed1.yspan
  THEN {[ok |-> FALSE, child |-> seed0]}
  ELSE UNION {
         (IF ~(seed0.yspan > 1) THEN {[ok |-> FALSE, child |-> seed0]}
          ELSE {[ok |-> TRUE, child |-> Crossed(seed0, seed1, swap, "y", ysp)] :
                  ysp \in 0 .. (seed0.yspan - 2)})
         \cup
         (IF ~(seed0.xspan > 1) THEN {[ok |-> FALSE, child |-> seed0]}
          ELSE {[ok |-> TRUE, child |-> Crossed(seed0, seed1, swap, "x", xsp)] :
                  xsp \in 0 .. (seed0.xspan - 2)})
         : swap \in BOOLEAN}

\* the two seeds side by side without the empty column between them
Fused_without_gap(s2, s3) ==
  LET xspan == s2.xspan + s3.xspan
      yspan == Max(s2.yspan, s3.yspan)
      s4 == Seed(xspan, yspan, pop_size)
  IN  [s4 EXCEPT !.cells = [x \in 1 .. xspan |-> [y \in 1 .. yspan |->
         IF x <= s2.xspan /\ y <= s2.yspan THEN s2.cells[x][y]
         ELSE IF x > s2.xspan /\ y <= s3.yspan THEN s3.cells[x - s2.xspan][y]
         ELSE 0]]]

\* the fused seed with the columns of the right part in reverse order
Fused_right_part_mirrored(s2, s3) ==
  LET xspan == s2.xspan + s3.xspan + 1
      yspan == Max(s2.yspan, s3.yspan)
      s4 == Seed(xspan, yspan, pop_size)
  IN  [s4 EXCEPT !.cells = [x \in 1 .. xspan |-> [y \in 1 .. yspan |->
         IF x <= s2.xspan /\ y <= s2.yspan THEN s2.cells[x][y]
         ELSE IF x > s2.xspan + 1 /\ y <= s3.yspan THEN s3.cells[xspan + 1 - x][y]
         ELSE 0]]]

\* the area of the seed that fusion would build from s2 and s3
fusion_area(s2, s3) == (s2.xspan + s3.xspan + 1) * Max(s2.yspan, s3.yspan)

\* the seed that fusion builds from the rotated seeds s2 (left) and s3 (right)
Fused(s2, s3) ==
  LET xspan == s2.xspan + s3.xspan + 1
      yspan == Max(s2.yspan, s3.yspan)
      s4 == Seed(xspan, yspan, pop_size)
  IN  [s4 EXCEPT !.cells = [x \in 1 .. xspan |-> [y \in 1 .. yspan |->
         IF x <= s2.xspan /\ y <= s2.yspan THEN s2.cells[x][y]
         ELSE IF x > s2.xspan + 1 /\ y <= s3.yspan THEN s3.cells[x - s2.xspan - 1][y]
         ELSE 0]]]

\* np.argmin(np.sum(s0.cells, axis = 0)): cells has shape (xspan, yspan), so
\* the sum runs over x and the result is the first index y, counted from 0,
\* with the least sum
SumAxis0(s, y) == SumSeq([x \in 1 .. s.xspan |-> s.cells[x][y]])

sparse_col(s0) ==
  (CHOOSE y \in 1 .. s0.yspan :
     /\ \A z \in 1 .. s0.yspan : SumAxis0(s0, y) <= SumAxis0(s0, z)
     /\ \A z \in 1 .. (y - 1) : SumAxis0(s0, z) > SumAxis0(s0, y)) - 1

\* s0.cells[0:c, :] and s0.cells[(c + 1):, :]
left_cells(s0, c) == SubSeq(s0.cells, 1, IF c < s0.xspan THEN c ELSE s0.xspan)
right_cells(s0, c) == SubSeq(s0.cells, c + 2, s0.xspan)

\* the part with the count of living cells of the whole seed
Fragment_not_recounted(s0, part) ==
  [s0 EXCEPT !.cells = part, !.xspan = Len(part)]

\* s1 = deepcopy(s0) with the cells of one part and the spans of that part
Fragment(s0, part) ==
  recount([s0 EXCEPT !.cells = part, !.xspan = Len(part)])

RECURSIVE sexual(_, _)
uniform_asexual(candidate_seed, ev0) ==
  LET ev == Enter(ev0, "uniform_asexual")
      s0 == candidate_seed
  IN  UNION {replace_worst(ev, s1) :
               s1 \in {recount(flip_bits(s0, F)) : F \in FlipSets(s0)}}

variable_asexual(candidate_seed, ev0) ==
  LET ev == Enter(ev0, "variable_asexual")
      s0 == candidate_seed
  IN  UNION {
        IF (s1.xspan * s1.yspan) > max_seed_area
        THEN uniform_asexual(candidate_seed, Infeasible(ev, "variable: oversized"))
        ELSE replace_worst(ev, s1)
        : s1 \in {recount(m) : m \in mutate(s0)}}

\* the second parents that sexual can choose among the similar seeds
Mates(similar_seeds) ==
  IF Len(similar_seeds) <= tournament_size
  THEN {[ok |-> TRUE, s1 |-> find_best_seed(similar_seeds)]}
  ELSE IF random_sample(similar_seeds, tournament_size) = {}
       THEN {[ok |-> FALSE, s1 |-> similar_seeds[1]]}
       ELSE {[ok |-> TRUE, s1 |-> find_best_seed(smp)] :
               smp \in random_sample(similar_seeds, tournament_size)}

SexualChild(candidate_seed, ev, s3) ==
  IF (s3.xspan * s3.yspan) > max_seed_area
  THEN uniform_asexual(candidate_seed, Infeasible(ev, "sexual: oversized"))
  ELSE replace_worst(ev, s3)

SexualMate(candidate_seed, ev, m) ==
  IF ~m.ok THEN {Crash(ev)}
  ELSE UNION {
         IF ~r.ok THEN {Crash(ev)}
         ELSE UNION {SexualChild(candidate_seed, ev, s3) :
                       s3 \in {recount(mu) : mu \in mutate(r.child)}}
         : r \in mate(candidate_seed, m.s1)}

\* the event with the choice of a mate that sexual is about to make: the
\* spans of the candidate and of the similar seeds, their number, and what
\* becomes of the call of random_sample
Mating(ev, s0, similar_seeds) ==
  [ev EXCEPT !.mating = Append(ev.mating,
     [candidate |-> <<s0.xspan, s0.yspan>>,
      pool |-> {<<similar_seeds[k].xspan, similar_seeds[k].yspan>> :
                  k \in 1 .. Len(similar_seeds)},
      num_similar_seeds |-> Len(similar_seeds),
      sample |-> IF Len(similar_seeds) <= tournament_size THEN "none"
                 ELSE IF random_sample(similar_seeds, tournament_size) = {}
                 THEN "assertion" ELSE "drawn",
      after |-> Len(ev.installs)])]

sexual(candidate_seed, ev0) ==
  LET s0 == candidate_seed
      similar_seeds == find_similar_seeds(s0, ev0.pop, min_similarity, max_similarity)
      ev == Mating(Enter(ev0, "sexual"), s0, similar_seeds)
  IN  IF Len(similar_seeds) = 0
      THEN variable_asexual(candidate_seed, Infeasible(ev, "sexual: no mate"))
      ELSE UNION {SexualMate(candidate_seed, ev, m) : m \in Mates(similar_seeds)}

\* what the name s refers to after slot i was overwritten: the seed is
\* still the member at its address (and has its entries for i updated) unless
\* it was the member at i
Current(s, i, p) == IF s.address = i THEN s ELSE p[s.address]

\* the outcomes of s1.fitness() >= s4.fitness, which compares a number with a
\* method: an exception (Python 3) or FALSE (Python 2 orders numbers first)
NumberGeqMethod == {"TypeError", "FALSE"}

\* fusion_storage(s2, s3, s4, n)
fusion_storage(lg, s2, s3, s4, born) ==
  Append(lg, [s2 |-> s2, s3 |-> s3, s4 |-> s4, n |-> born])

\* the end of fusion, after s4 took slot i in ev: the immediate symbiosis
\* test, the report and the storage
FusionEnd(candidate_seed, s1, s2, s3, i, ev, flag, born) ==
  LET s0 == Current(candidate_seed, i, ev.pop)
      s1c == IF fusion_test_flag = 1 THEN s1 ELSE Current(s1, i, ev.pop)
      s4 == ev.pop[i]
      failed == fitness(s0) >= fitness(s4) \/ fitness(s1c) >= fitness(s4)
      evt == [ev EXCEPT !.symbiosis =
                IF flag # 1 THEN "none" ELSE IF failed THEN "failed" ELSE "passed"]
      accepted == [evt EXCEPT !.log = fusion_storage(ev.log, s2, s3, s4, born)]
  IN  IF ev.crashed THEN {ev}
      ELSE IF flag = 1
      THEN IF fitness(s0) >= fitness(s4)
           THEN sexual(s0, evt)
           ELSE {IF c = "TypeError" THEN Crash(evt) ELSE accepted :
                   c \in NumberGeqMethod}
      ELSE {accepted}

FusionJoin(candidate_seed, s1, s2, s3, ev, flag, born) ==
  IF fusion_area(s2, s3) > max_seed_area
  THEN sexual(candidate_seed, Infeasible(ev, "fusion: oversized"))
  ELSE LET s4 == recount(Fused(s2, s3))
           i == find_worst_seed(PopList(ev.pop)).address
       IN  UNION {FusionEnd(candidate_seed, s1, s2, s3, i, ev2, flag, born) :
                    ev2 \in replace_worst(ev, s4)}

fusion(candidate_seed, ev0, flag, born) ==
  LET ev == Enter(ev0, "fusion")
      s0 == candidate_seed
      samples == random_sample(PopList(ev.pop), tournament_size)
  IN  IF samples = {} THEN {Crash(ev)}
      ELSE UNION {
             UNION {FusionJoin(candidate_seed, s1, rs[1], rs[2], ev, flag, born) :
                      rs \in random_rotate(s0) \X random_rotate(s1)}
             : s1 \in UNION {IF fusion_test_flag = 1
                             THEN shuffle(find_best_seed(smp))
                             ELSE {find_best_seed(smp)} : smp \in samples}}

\* fission that takes either part as soon as one of them is wide enough
fission_child_any_part(s0, minx) ==
  LET c == sparse_col(s0)
      left == left_cells(s0, c)
      right == right_cells(s0, c)
  IN  IF s0.xspan <= minx
      THEN {[fallback |-> TRUE, why |-> "fission: narrow", s1 |-> s0]}
      ELSE IF Len(left) >= minx \/ Len(right) >= minx
      THEN {[fallback |-> FALSE, why |-> "", s1 |-> Fragment(s0, part)] :
              part \in {left, right}}
      ELSE {[fallback |-> TRUE, why |-> "fission: no part", s1 |-> s0]}

\* the part of fission before the replacement, for a least width minx: the
\* fallbacks to sexual and the children s1 that the random draw can give
fission_child(s0, minx) ==
  LET c == sparse_col(s0)
      left == left_cells(s0, c)
      right == right_cells(s0, c)
      parts == IF Len(left) >= minx /\ Len(right) >= minx
               THEN {left, right}
               ELSE IF Len(left) >= minx THEN {left}
               ELSE IF Len(right) >= minx THEN {right}
               ELSE {}
  IN  IF s0.xspan <= minx
      THEN {[fallback |-> TRUE, why |-> "fission: narrow", s1 |-> s0]}
      ELSE IF parts = {}
      THEN {[fallback |-> TRUE, why |-> "fission: no part", s1 |-> s0]}
      ELSE {[fallback |-> FALSE, why |-> "", s1 |-> Fragment(s0, part)] :
              part \in parts}

fission(candidate_seed, ev0) ==
  LET ev == Enter(ev0, "fission")
      s0 == candidate_seed
  IN  UNION {IF o.fallback
             THEN sexual(candidate_seed, Infeasible(ev, o.why))
             ELSE replace_worst(ev, o.s1)
             : o \in fission_child(s0, min_s_xspan)}

\* the draws of rand.uniform(0, 1), which are less than 1, and the
\* probabilities, in quarters: 4 is 1.0
UniformDraws == 0 .. 3

\* symbiotic with the thresholds of fission and fusion exchanged
symbiotic_thresholds_swapped(candidate_seed, ev0, uniform_random, mp, born) ==
  LET ev == [Enter(ev0, "symbiotic") EXCEPT !.draw = uniform_random]
  IN  IF uniform_random < mp.prob_fusion
      THEN fission(candidate_seed, ev)
      ELSE IF uniform_random < (mp.prob_fission + mp.prob_fusion)
      THEN fusion(candidate_seed, ev, mp.immediate_symbiosis_flag, born)
      ELSE sexual(candidate_seed, ev)

symbiotic(candidate_seed, ev0, uniform_random, mp, born) ==
  LET ev == [Enter(ev0, "symbiotic") EXCEPT !.draw = uniform_random]
  IN  IF uniform_random < mp.prob_fission
      THEN fission(candidate_seed, ev)
      ELSE IF uniform_random < (mp.prob_fission + mp.prob_fusion)
      THEN fusion(candidate_seed, ev, mp.immediate_symbiosis_flag, born)
      ELSE sexual(candidate_seed, ev)

(***************************************************************************)
(* The run: the initial population and one action per operator that the    *)
(* generational driver can call.                                           *)
(***************************************************************************)
NoEvent ==
  [op |-> "none", cand |-> 0, returned |-> FALSE, path |-> <<>>,
   installs |-> <<>>, calls |-> 0, infeasible |-> <<>>, symbiosis |-> "none",
   draw |-> -1, before |-> <<>>, mating |-> <<>>]

\* the settings of prob_fission and prob_fusion, in quarters
ProbSettings == {<<1, 1>>, <<4, 0>>}

\* initialize_population: pop_size random seeds of s_xspan by s_yspan cells
InitialSeeds ==
  {recount([Seed(s_xspan, s_yspan, pop_size) EXCEPT !.cells = c]) :
     c \in [1 .. s_xspan -> [1 .. s_yspan -> {0, 1}]]}

\* the random grids of the first generation
FirstCells == {<< <<<<1>>, <<1>>>>, <<<<1>>, <<0>>>>, <<<<0>>, <<1>>>> >>}

initialize_population ==
  {ip \in [Addresses -> InitialSeeds] :
     /\ \A a \in Addresses : ip[a].num_living > 0
     /\ \E fc \in FirstCells : \A a \in Addresses : ip[a].cells = fc[a + 1]}

\* the population with address i set on seed i
Addressed(p) == [i \in Addresses |-> [p[i] EXCEPT !.address = i]]

\* the post-run counts of the contests of the first generation: both seeds
\* die out, or only the seed with the lower address grows
FirstCounts(seed1, seed2) ==
  [1 .. num_trials -> {<<0, 0>>, <<seed1.num_living + 1, 0>>}]

\* the first fill of both matrices: every pair i <= j once
RECURSIVE FillFrom(_, _, _)
FillStep(p, i, j, counts) ==
  FillFrom(update_similarity(update_history(p, i, j, counts).pop, i, j), i, j + 1)

FillFrom(p, i, j) ==
  IF i = pop_size THEN {p}
  ELSE IF j = pop_size THEN FillFrom(p, i + 1, i + 1)
  ELSE UNION {FillStep(p, i, j, counts) :
                counts \in IF i = j THEN {<<>>} ELSE FirstCounts(p[i], p[j])}

\* no function called on its own
CallIdle == [fn |-> "none"]

\* no replacement taken step by step
RaceIdle == [mode |-> "none"]

\* no call followed
WalkIdle == [at |-> "none"]

\* score_pair not running
SpIdle == [pc |-> "idle", num_trials |-> 0, trial |-> 0, living1 |-> 0, living2 |-> 0,
           sum1 |-> 0, sum2 |-> 0, score1 |-> <<0, 1>>, score2 |-> <<0, 1>>,
           count1 |-> 0, count2 |-> 0, points |-> <<0, 0>>]

Init ==
  /\ pop \in UNION {FillFrom(Addressed(ip), 0, 0) : ip \in initialize_population}
  /\ n = 0
  /\ crashed = FALSE
  /\ mparam \in {[immediate_symbiosis_flag |-> f, prob_fission |-> pr[1],
                    prob_fusion |-> pr[2]] : f \in {0, 1}, pr \in ProbSettings}
  /\ event = NoEvent
  /\ stale = {}
  /\ fusion_log = <<>>
  /\ sp = SpIdle
  /\ call = CallIdle
  /\ race = RaceIdle
  /\ walk = WalkIdle

\* the state after the driver's call of an operator that ended in ev
Apply(op, c, ev) ==
  /\ pop' = ev.pop
  /\ n' = n + 1
  /\ crashed' = ev.crashed
  /\ event' = [op |-> op, cand |-> c, returned |-> ~ev.crashed, path |-> ev.path,
               installs |-> ev.installs, calls |-> ev.calls,
               infeasible |-> ev.infeasible, symbiosis |-> ev.symbiosis,
               draw |-> ev.draw, before |-> [a \in Addresses |-> Grid(pop[a])],
               mating |-> ev.mating]
  /\ stale' = ev.stale
  /\ fusion_log' = ev.log
  /\ UNCHANGED <<mparam, sp, call, race, walk>>

Ready == ~crashed /\ n < MaxBirths

UniformAsexual ==
  /\ Ready
  /\ \E c \in Addresses :
       \E ev \in uniform_asexual(pop[c], NewEvent(pop, fusion_log)) :
         Apply("uniform_asexual", c, ev)

VariableAsexual ==
  /\ Ready
  /\ \E c \in Addresses :
       \E ev \in variable_asexual(pop[c], NewEvent(pop, fusion_log)) :
         Apply("variable_asexual", c, ev)

Sexual ==
  /\ Ready
  /\ \E c \in Addresses :
       \E ev \in sexual(pop[c], NewEvent(pop, fusion_log)) :
         Apply("sexual", c, ev)

Symbiotic ==
  /\ Ready
  /\ \E c \in Addresses, u \in UniformDraws :
       \E ev \in symbiotic(pop[c], NewEvent(pop, fusion_log), u, mparam, n) :
         Apply("symbiotic", c, ev)

Next ==
  \/ UniformAsexual
  \/ VariableAsexual
  \/ Sexual
  \/ Symbiotic

Spec == Init /\ [][Next]_vars

(***************************************************************************)
(* score_pair on its own: one call with num_trials trials for two seeds    *)
(* with living1 and living2 cells.  sum1 and sum2 are the running scores   *)
(* in half points; score1 and score2 are the returned fractions.           *)
(***************************************************************************)
\* the post-run counts the simulator may report for a seed
SimCounts == 0 .. (MaxLiving + 1)

\* the population while score_pair runs on its own: it is not touched
ScorePop == [a \in Addresses |-> [Seed(s_xspan, s_yspan, pop_size) EXCEPT !.address = a]]

InitScore ==
  /\ sp \in [pc : {"called"}, num_trials : 1 .. MaxTrials, trial : {0},
              living1 : 0 .. MaxLiving, living2 : 0 .. MaxLiving,
              sum1 : {0}, sum2 : {0}, score1 : {<<0, 1>>}, score2 : {<<0, 1>>},
              count1 : {0}, count2 : {0}, points : {<<0, 0>>}]
  /\ pop = ScorePop
  /\ n = 0
  /\ crashed = FALSE
  /\ mparam = [immediate_symbiosis_flag |-> 0, prob_fission |-> 1, prob_fusion |-> 1]
  /\ event = NoEvent
  /\ stale = {}
  /\ fusion_log = <<>>
  /\ call = CallIdle
  /\ race = RaceIdle
  /\ walk = WalkIdle

\* the entry of score_pair with the assertion for the first seed only
ScoreAssert_first_seed_only ==
  /\ sp.pc = "called"
  /\ sp' = [sp EXCEPT !.pc = IF sp.living1 > 0 THEN "trials" ELSE "aborted"]
  /\ UNCHANGED <<pop, n, crashed, mparam, event, stale, fusion_log, call, race, walk>>

\* assert s1.num_living > 0; assert s2.num_living > 0
ScoreAssert ==
  /\ sp.pc = "called"
  /\ sp' = [sp EXCEPT !.pc = IF sp.living1 > 0 /\ sp.living2 > 0
                              THEN "trials" ELSE "aborted"]
  /\ UNCHANGED <<pop, n, crashed, mparam, event, stale, fusion_log, call, race, walk>>

\* one pass of the loop over the trials
ScoreTrial ==
  /\ sp.pc = "trials"
  /\ sp.trial < sp.num_trials
  /\ \E count1 \in SimCounts, count2 \in SimCounts :
       LET pt == TrialPoints(sp.living1, sp.living2, count1, count2)
       IN  sp' = [sp EXCEPT !.trial = sp.trial + 1,
                            !.sum1 = sp.sum1 + pt[1],
                            !.sum2 = sp.sum2 + pt[2],
                            !.count1 = count1,
                            !.count2 = count2,
                            !.points = pt]
  /\ UNCHANGED <<pop, n, crashed, mparam, event, stale, fusion_log, call, race, walk>>

\* score1 = score1 / num_trials; score2 = score2 / num_trials; return
ScoreReturn ==
  /\ sp.pc = "trials"
  /\ sp.trial = sp.num_trials
  /\ sp' = [sp EXCEPT !.pc = "returned",
                       !.score1 = <<sp.sum1, 2 * sp.num_trials>>,
                       !.score2 = <<sp.sum2, 2 * sp.num_trials>>]
  /\ UNCHANGED <<pop, n, crashed, mparam, event, stale, fusion_log, call, race, walk>>

NextScore ==
  \/ ScoreAssert
  \/ ScoreTrial
  \/ ScoreReturn

SpecScore == InitScore /\ [][NextScore]_vars

(***************************************************************************)
(* The functions on their own: one call of one function with arguments     *)
(* drawn from small sets; call holds the arguments and the result.         *)
(***************************************************************************)
\* the seeds of xspan by yspan cells with their live cells counted
SeedsOf(xspan, yspan) ==
  {recount([Seed(xspan, yspan, pop_size) EXCEPT !.cells = c]) :
     c \in [1 .. xspan -> [1 .. yspan -> {0, 1}]]}

CallSeeds ==
  UNION {SeedsOf(xspan, yspan) : xspan \in 1 .. CallXspan, yspan \in 1 .. CallYspan}

\* the candidates of fission: the seeds above and those two wide, three high
FissionSeeds == CallSeeds \cup SeedsOf(2, 3)

InitCalls ==
  /\ call = CallIdle
  /\ race = RaceIdle
  /\ walk = WalkIdle
  /\ sp = SpIdle
  /\ pop = ScorePop
  /\ n = 0
  /\ crashed = FALSE
  /\ mparam = [immediate_symbiosis_flag |-> 0, prob_fission |-> 1, prob_fusion |-> 1]
  /\ event = NoEvent
  /\ stale = {}
  /\ fusion_log = <<>>

\* fission up to the replacement
CallFission ==
  /\ call.fn = "none"
  /\ \E s0 \in FissionSeeds, minx \in 1 .. CallMinXspan :
       call' = [fn |-> "fission", s0 |-> s0, minx |-> minx,
                out |-> fission_child(s0, minx)]
  /\ UNCHANGED <<pop, n, crashed, mparam, event, stale, fusion_log, sp, race, walk>>

\* fusion from the rotated seeds up to the replacement
CallFusion ==
  /\ call.fn = "none"
  /\ \E s2 \in CallSeeds, s3 \in CallSeeds :
       call' = [fn |-> "fusion", s2 |-> s2, s3 |-> s3,
                fits |-> ~(fusion_area(s2, s3) > max_seed_area),
                s4 |-> IF fusion_area(s2, s3) > max_seed_area THEN s2
                       ELSE recount(Fused(s2, s3))]
  /\ UNCHANGED <<pop, n, crashed, mparam, event, stale, fusion_log, sp, race, walk>>

\* fission of the seed that fusion built from s2 and s3
CallFissionOfFused ==
  /\ call.fn = "none"
  /\ \E s2 \in CallSeeds, s3 \in CallSeeds, minx \in 1 .. CallMinXspan :
       /\ ~(fusion_area(s2, s3) > max_seed_area)
       /\ call' = [fn |-> "fission of fused", s2 |-> s2, s3 |-> s3, minx |-> minx,
                   s4 |-> recount(Fused(s2, s3)),
                   out |-> fission_child(recount(Fused(s2, s3)), minx)]
  /\ UNCHANGED <<pop, n, crashed, mparam, event, stale, fusion_log, sp, race, walk>>

\* mate(seed0, seed1) with every outcome of its random draws
CallMate ==
  /\ call.fn = "none"
  /\ \E seed0 \in CallSeeds, seed1 \in CallSeeds :
       call' = [fn |-> "mate", seed0 |-> seed0, seed1 |-> seed1,
                out |-> mate(seed0, seed1)]
  /\ UNCHANGED <<pop, n, crashed, mparam, event, stale, fusion_log, sp, race, walk>>

\* similarity(seed0, seed1) and similarity(seed1, seed0)
CallSimilarity ==
  /\ call.fn = "none"
  /\ \E seed0 \in CallSeeds, seed1 \in CallSeeds :
       call' = [fn |-> "similarity", seed0 |-> seed0, seed1 |-> seed1,
                out |-> similarity(seed0, seed1),
                back |-> similarity(seed1, seed0)]
  /\ UNCHANGED <<pop, n, crashed, mparam, event, stale, fusion_log, sp, race, walk>>

\* the similarities a seed may have on record, and the bounds asked for
SimValues == {<<0, 1>>, <<1, 2>>, <<1, 1>>}

\* find_similar_seeds(target_seed, pop, lo, hi) for a member of a population
\* with any similarities on record
CallFindSimilar ==
  /\ call.fn = "none"
  /\ \E a \in Addresses, row \in [Addresses -> SimValues],
        lo \in SimValues, hi \in SimValues :
       LET target_seed == [ScorePop[a] EXCEPT !.similarities = row]
           p == Upd(ScorePop, a, target_seed)
       IN  call' = [fn |-> "find_similar_seeds", target_seed |-> target_seed,
                    pop |-> p, lo |-> lo, hi |-> hi,
                    out |-> find_similar_seeds(target_seed, p, lo, hi)]
  /\ UNCHANGED <<pop, n, crashed, mparam, event, stale, fusion_log, sp, race, walk>>

\* random_sample(population, sample_size) for the first m seeds of a
\* population and sample sizes from below 0 to above pop_size
CallRandomSample ==
  /\ call.fn = "none"
  /\ \E m \in 1 .. pop_size, sample_size \in -1 .. (pop_size + 1) :
       LET population == SubSeq(PopList(ScorePop), 1, m)
       IN  call' = [fn |-> "random_sample", population |-> population,
                    sample_size |-> sample_size,
                    out |-> random_sample(population, sample_size)]
  /\ UNCHANGED <<pop, n, crashed, mparam, event, stale, fusion_log, sp, race, walk>>

NextCalls ==
  \/ CallFissionOfFused
  \/ CallRandomSample
  \/ CallSimilarity
  \/ CallFindSimilar
  \/ CallFission
  \/ CallFusion
  \/ CallMate

SpecCalls == InitCalls /\ [][NextCalls]_vars

(***************************************************************************)
(* Two replacements taken step by step.  The block that ends every         *)
(* operator is three steps: find the least fit seed, overwrite its slot,   *)
(* and update the child's history and similarities one j at a time.  In    *)
(* the mode "serialized" a replacement begins only when no other is under  *)
(* way, which is how the operators are called; in the mode "interleaved"   *)
(* the steps of two replacements mix freely.                               *)
(***************************************************************************)
Racers == {1, 2}

\* the mark of the child of replacement e; the seed first at address a is
\* marked a
ChildMark(e) == 10 + e

\* the candidates that the tournament before replacement e can return
RaceCandidates(e) == {e - 1}

\* replacement e is between its first and its last step
UnderWay(e) == race.pc[e] \in {"selected", "updating"}

InitRace ==
  /\ pop \in UNION {FillFrom(Addressed(ip), 0, 0) : ip \in initialize_population}
  /\ race \in {[mode |-> m,
                 pc |-> [e \in Racers |-> "ready"],
                 worst |-> [e \in Racers |-> 0],
                 j |-> [e \in Racers |-> 0],
                 child |-> [e \in Racers |-> Seed(s_xspan, s_yspan, pop_size)],
                 took |-> [e \in Racers |-> 0],
                 occupant |-> [a \in Addresses |-> a],
                 scored |-> [a \in Addresses |-> [b \in Addresses |-> <<a, b>>]],
                 lost |-> FALSE] : m \in {"serialized", "interleaved"}}
  /\ n = 0
  /\ crashed = FALSE
  /\ mparam = [immediate_symbiosis_flag |-> 0, prob_fission |-> 1, prob_fusion |-> 1]
  /\ event = NoEvent
  /\ stale = {}
  /\ fusion_log = <<>>
  /\ sp = SpIdle
  /\ call = CallIdle
  /\ walk = WalkIdle

\* uniform_asexual up to s2 = find_worst_seed(pop), entered freely
RaceSelect_unlocked(e) ==
  /\ ~crashed
  /\ race.pc[e] = "ready"
  /\ \E c \in RaceCandidates(e) : \E F \in FlipSets(pop[c]) :
       LET i == find_worst_seed(PopList(pop)).address
       IN  race' = [race EXCEPT !.pc = Upd(race.pc, e, "selected"),
                                !.worst = Upd(race.worst, e, i),
                                !.child = Upd(race.child, e, recount(flip_bits(pop[c], F))),
                                !.took = Upd(race.took, e, race.occupant[i])]
  /\ UNCHANGED <<pop, n, crashed, mparam, event, stale, fusion_log, sp, call, walk>>

\* uniform_asexual up to s2 = find_worst_seed(pop)
RaceSelect(e) ==
  /\ ~crashed
  /\ race.pc[e] = "ready"
  /\ race.mode = "serialized" => \A o \in Racers \ {e} : ~UnderWay(o)
  /\ \E c \in RaceCandidates(e) : \E F \in FlipSets(pop[c]) :
       LET i == find_worst_seed(PopList(pop)).address
       IN  race' = [race EXCEPT !.pc = Upd(race.pc, e, "selected"),
                                !.worst = Upd(race.worst, e, i),
                                !.child = Upd(race.child, e, recount(flip_bits(pop[c], F))),
                                !.took = Upd(race.took, e, race.occupant[i])]
  /\ UNCHANGED <<pop, n, crashed, mparam, event, stale, fusion_log, sp, call, walk>>

\* i = s2.address; s1.address = i; pop[i] = s1
RaceOverwrite(e) ==
  /\ ~crashed
  /\ race.pc[e] = "selected"
  /\ LET i == race.worst[e]
     IN  /\ pop' = install(pop, i, race.child[e])
         /\ race' = [race EXCEPT
                       !.pc = Upd(race.pc, e, "updating"),
                       !.j = Upd(race.j, e, 0),
                       !.occupant = Upd(race.occupant, i, ChildMark(e)),
                       !.lost = race.lost \/ race.occupant[i] # race.took[e]]
  /\ n' = n + 1
  /\ UNCHANGED <<crashed, mparam, event, stale, fusion_log, sp, call, walk>>

\* one pass of the loop: update_history(g, pop, i, j, ...); update_similarity(pop, i, j)
RaceUpdate(e) ==
  /\ ~crashed
  /\ race.pc[e] = "updating"
  /\ LET i == race.worst[e]
         j == race.j[e]
     IN  \E counts \in IF i = j THEN {<<>>} ELSE CountSeqs(pop[i], pop[j]) :
           LET h == update_history(pop, i, j, counts)
               row == Upd(race.scored[i], j, <<race.occupant[i], race.occupant[j]>>)
               col == Upd(race.scored[j], i, <<race.occupant[j], race.occupant[i]>>)
           IN  IF ~h.ok
               THEN /\ race' = [race EXCEPT !.pc = Upd(race.pc, e, "aborted")]
                    /\ crashed' = TRUE
                    /\ UNCHANGED pop
               ELSE /\ pop' = update_similarity(h.pop, i, j)
                    /\ UNCHANGED crashed
                    /\ race' = [race EXCEPT
                                  !.pc = Upd(race.pc, e, IF j + 1 < pop_size
                                                         THEN "updating" ELSE "done"),
                                  !.j = Upd(race.j, e, j + 1),
                                  !.scored = IF i = j
                                             THEN Upd(race.scored, i, row)
                                             ELSE Upd(Upd(race.scored, i, row), j, col)]
  /\ UNCHANGED <<n, mparam, event, stale, fusion_log, sp, call, walk>>

NextRace ==
  \E e \in Racers : RaceSelect(e) \/ RaceOverwrite(e) \/ RaceUpdate(e)

SpecRace == InitRace /\ [][NextRace]_vars

(***************************************************************************)
(* One reproduction call followed from operator to operator.  Each action  *)
(* is one operator up to its return: it ends the call, with the report or  *)
(* with an assertion or exception, or it returns the call of another       *)
(* operator.  Of the seeds only the spans are kept; what depends on the    *)
(* cells (the sparsest index, the similar seeds, the fitnesses, a child    *)
(* without living cells) is any of its outcomes.                           *)
(***************************************************************************)
Operators ==
  {"symbiotic", "fission", "fusion", "sexual", "variable_asexual", "uniform_asexual"}

\* the spans <<xspan, yspan>> of the seeds
WalkSpans == (1 .. CallXspan) \X (1 .. CallYspan)

\* the settings of max_seed_area
WalkAreas == {2, 5, 6}

\* the spans after Seed.mutate: kept, grown or shrunk by one
MutatedSpans(d) ==
  {d, <<d[1] + 1, d[2]>>, <<d[1], d[2] + 1>>}
  \cup (IF d[1] > 1 THEN {<<d[1] - 1, d[2]>>} ELSE {})
  \cup (IF d[2] > 1 THEN {<<d[1], d[2] - 1>>} ELSE {})

\* the spans after Seed.random_rotate
RotatedSpans(d) == {d, <<d[2], d[1]>>}

InitWalk ==
  /\ walk \in {[at |-> op, path |-> <<op>>, s0 |-> d, max_seed_area |-> a,
                 min_s_xspan |-> m, immediate_symbiosis_flag |-> f,
                 children |-> {}] :
                op \in Operators \ {"fission", "fusion"}, d \in WalkSpans,
                a \in WalkAreas, m \in 1 .. CallMinXspan, f \in {0, 1}}
  /\ pop = ScorePop
  /\ n = 0
  /\ crashed = FALSE
  /\ mparam = [immediate_symbiosis_flag |-> 0, prob_fission |-> 1, prob_fusion |-> 1]
  /\ event = NoEvent
  /\ stale = {}
  /\ fusion_log = <<>>
  /\ sp = SpIdle
  /\ call = CallIdle
  /\ race = RaceIdle

\* return other(candidate_seed, pop, n, ...)
Go(op) == walk' = [walk EXCEPT !.at = op, !.path = Append(walk.path, op)]

\* the child of spans s1 takes a slot and is scored against the population:
\* the call returns [pop, message], or score_pair's assertion ends it
Replace(s1) ==
  \E end \in {"returned", "aborted"} :
    walk' = [walk EXCEPT !.at = end, !.children = walk.children \cup {s1}]

WalkUniform ==
  /\ walk.at = "uniform_asexual"
  /\ Replace(walk.s0)
  /\ UNCHANGED <<pop, n, crashed, mparam, event, stale, fusion_log, sp, call, race>>

\* variable_asexual that returns sexual(...) for a child too large
WalkVariable_back_to_sexual ==
  /\ walk.at = "variable_asexual"
  /\ \E s1 \in MutatedSpans(walk.s0) :
       IF (s1[1] * s1[2]) > walk.max_seed_area THEN Go("sexual") ELSE Replace(s1)
  /\ UNCHANGED <<pop, n, crashed, mparam, event, stale, fusion_log, sp, call, race>>

WalkVariable ==
  /\ walk.at = "variable_asexual"
  /\ \E s1 \in MutatedSpans(walk.s0) :
       IF (s1[1] * s1[2]) > walk.max_seed_area THEN Go("uniform_asexual") ELSE Replace(s1)
  /\ UNCHANGED <<pop, n, crashed, mparam, event, stale, fusion_log, sp, call, race>>

\* sexual without the test of the area of the child
WalkSexual_area_unchecked ==
  /\ walk.at = "sexual"
  /\ \E num_similar_seeds \in {0, 1}, axis \in {1, 2}, s3 \in MutatedSpans(walk.s0) :
       IF num_similar_seeds = 0 THEN Go("variable_asexual")
       ELSE IF ~(walk.s0[axis] > 1) THEN walk' = [walk EXCEPT !.at = "aborted"]
       ELSE Replace(s3)
  /\ UNCHANGED <<pop, n, crashed, mparam, event, stale, fusion_log, sp, call, race>>

WalkSexual ==
  /\ walk.at = "sexual"
  /\ \E num_similar_seeds \in {0, 1}, axis \in {1, 2}, s3 \in MutatedSpans(walk.s0) :
       IF num_similar_seeds = 0 THEN Go("variable_asexual")
       ELSE IF ~(walk.s0[axis] > 1) THEN walk' = [walk EXCEPT !.at = "aborted"]
       ELSE IF (s3[1] * s3[2]) > walk.max_seed_area THEN Go("uniform_asexual")
       ELSE Replace(s3)
  /\ UNCHANGED <<pop, n, crashed, mparam, event, stale, fusion_log, sp, call, race>>

WalkFission ==
  /\ walk.at = "fission"
  /\ IF walk.s0[1] <= walk.min_s_xspan THEN Go("sexual")
     ELSE \E c \in 0 .. (walk.s0[2] - 1) :
            LET left == IF c < walk.s0[1] THEN c ELSE walk.s0[1]
                right == IF c + 1 < walk.s0[1] THEN walk.s0[1] - (c + 1) ELSE 0
            IN  IF left >= walk.min_s_xspan /\ right >= walk.min_s_xspan
                THEN Replace(<<left, walk.s0[2]>>) \/ Replace(<<right, walk.s0[2]>>)
                ELSE IF left >= walk.min_s_xspan THEN Replace(<<left, walk.s0[2]>>)
                ELSE IF right >= walk.min_s_xspan THEN Replace(<<right, walk.s0[2]>>)
                ELSE Go("sexual")
  /\ UNCHANGED <<pop, n, crashed, mparam, event, stale, fusion_log, sp, call, race>>

WalkFusion ==
  /\ walk.at = "fusion"
  /\ \E s1 \in WalkSpans :
       \E s2 \in RotatedSpans(walk.s0), s3 \in RotatedSpans(s1) :
         IF ((s2[1] + s3[1] + 1) * Max(s2[2], s3[2])) > walk.max_seed_area
         THEN Go("sexual")
         ELSE LET s4 == <<s2[1] + s3[1] + 1, Max(s2[2], s3[2])>>
                  put == walk.children \cup {s4}
              IN  \E test \in {"s0 as fit", "exception", "kept"} :
                    IF walk.immediate_symbiosis_flag # 1 \/ test = "kept"
                    THEN Replace(s4)
                    ELSE IF test = "s0 as fit"
                    THEN walk' = [walk EXCEPT !.at = "sexual",
                                              !.path = Append(walk.path, "sexual"),
                                              !.children = put]
                    ELSE walk' = [walk EXCEPT !.at = "aborted", !.children = put]
  /\ UNCHANGED <<pop, n, crashed, mparam, event, stale, fusion_log, sp, call, race>>

WalkSymbiotic ==
  /\ walk.at = "symbiotic"
  /\ \E op \in {"fission", "fusion", "sexual"} : Go(op)
  /\ UNCHANGED <<pop, n, crashed, mparam, event, stale, fusion_log, sp, call, race>>

NextWalk ==
  \/ WalkSymbiotic
  \/ WalkFission
  \/ WalkFusion
  \/ WalkSexual
  \/ WalkVariable
  \/ WalkUniform

SpecWalk == InitWalk /\ [][NextWalk]_vars

(***************************************************************************)
(* The properties.                                                         *)
(***************************************************************************)
\* the last event installed its k-th child at this address
InstalledAt(k) == event.installs[k].addr

\* C1: when a reproduction event has ended, by a return or by a fatal abort,
\* no entry of the row or the column of an overwritten slot is left that was
\* not recomputed for the new seed.
C1_NoStaleEntryAfterEvent == stale = {}

\* C2: in every state between completed events the similarities are symmetric
\* and every entry off the diagonal is similarity() of the two seeds that are
\* in the population now.
C2_SimilaritiesCurrent ==
  ~crashed =>
    \A i, j \in Addresses :
      /\ pop[i].similarities[j] = pop[j].similarities[i]
      /\ i # j => pop[i].similarities[j] = similarity(pop[i], pop[j])

\* C2 witness: a variable asexual event has returned and its child, which has
\* other dimensions than the seeds of the first generation, is in its slot.
C2_ChildOfOtherShapeInstalled ==
  /\ event.op = "variable_asexual"
  /\ event.returned
  /\ Len(event.installs) = 1
  /\ pop[InstalledAt(1)].xspan * pop[InstalledAt(1)].yspan # s_xspan * s_yspan
  /\ \E j \in Addresses : pop[InstalledAt(1)].similarities[j] = <<0, 1>>

\* C3 as stated: after every completed reproduction event the history matrix
\* is symmetric, history[i][j] = history[j][i].
C3_HistorySymmetric ==
  event.returned =>
    \A i, j \in Addresses : pop[i].history[j] = pop[j].history[i]

\* C3 amended: between completed events the two entries of every pair of
\* addresses add up to 1.0 (the diagonal entries are 0.5).
C3_HistoryComplementary ==
  ~crashed =>
    \A i, j \in Addresses : pop[i].history[j] + pop[j].history[i] = One

\* C3 witness: uniform asexual has returned and its child won a contest
\* outright, so that the two entries of that pair differ.
C3_ChildWonAContest ==
  /\ event.op = "uniform_asexual"
  /\ event.returned
  /\ \E j \in Addresses :
       /\ pop[InstalledAt(1)].history[j] = One
       /\ pop[j].history[InstalledAt(1)] = 0

\* C4: after an event that returned, every slot it overwrote has 0.5 on the
\* diagonal of the history and 1.0 on the diagonal of the similarities, and
\* score_pair ran only for the pop_size - 1 other members per replacement.
C4_DiagonalWithoutScoring ==
  event.returned =>
    /\ \A k \in 1 .. Len(event.installs) :
         /\ pop[InstalledAt(k)].history[InstalledAt(k)] = Half
         /\ pop[InstalledAt(k)].similarities[InstalledAt(k)] = <<1, 1>>
    /\ event.calls = (pop_size - 1) * Len(event.installs)

\* C4 witness: uniform asexual has returned after it put a deep copy of the
\* candidate into the slot of another seed.
C4_CopyReplacedAnotherSeed ==
  /\ event.op = "uniform_asexual"
  /\ event.returned
  /\ Len(event.installs) = 1
  /\ InstalledAt(1) # event.cand
  /\ pop[InstalledAt(1)].cells = pop[event.cand].cells

\* C5: when score_pair has returned, its scores add up to 1.0, both are in
\* [0, 1] and both are multiples of 1 / (2 * num_trials).
C5_ScoresAddUpToOne ==
  sp.pc = "returned" =>
    /\ sp.score1[1] * sp.score2[2] + sp.score2[1] * sp.score1[2]
         = sp.score1[2] * sp.score2[2]
    /\ \A s \in {sp.score1, sp.score2} :
         /\ RatLeq(<<0, 1>>, s)
         /\ RatLeq(s, <<1, 1>>)
         /\ (s[1] * 2 * sp.num_trials) % s[2] = 0

\* C5 witness: score_pair has returned after several trials of which one
\* seed won some and not all.
C5_MixedTrialsReturned ==
  /\ sp.pc = "returned"
  /\ sp.num_trials > 1
  /\ sp.sum1 = 3

\* C6: every child is installed at the address of the member that had the
\* least fitness just before, the lowest such address if several tie.
C6_ChildReplacesFirstLeastFit ==
  \A k \in 1 .. Len(event.installs) :
    LET r == event.installs[k]
    IN  /\ \A a \in Addresses : r.fit[r.addr] <= r.fit[a]
        /\ \A a \in Addresses : a < r.addr => r.fit[a] > r.fit[r.addr]

\* C6 witness: an operator has returned after it replaced a seed that tied
\* for the least fitness with a seed at a higher address, and the replaced
\* seed was not the candidate.
C6_TieForLeastFit ==
  /\ event.returned
  /\ Len(event.installs) = 1
  /\ event.installs[1].addr # event.cand
  /\ \E a \in Addresses :
       /\ a > event.installs[1].addr
       /\ event.installs[1].fit[a] = event.installs[1].fit[event.installs[1].addr]

\* C7: a reproduction call that returns has overwritten exactly one slot of
\* the population, whichever fallbacks it took.
C7_OneSlotPerEvent ==
  event.returned =>
    Cardinality({InstalledAt(k) : k \in 1 .. Len(event.installs)}) = 1

\* C8: the population has the addresses 0 .. pop_size - 1 and the seed at
\* address i has address = i.
C8_AddressesMatchSlots ==
  /\ DOMAIN pop = Addresses
  /\ \A i \in Addresses : pop[i].address = i

\* C8 witness: sexual has returned after it put the child of the candidate
\* into the slot of another seed.
C8_ChildInAnotherSlot ==
  /\ event.op = "sexual"
  /\ event.returned
  /\ event.path = <<"sexual">>
  /\ InstalledAt(1) # event.cand

\* C9: every seed of the population has num_living equal to the number of
\* its cells that are not 0.
C9_NumLivingIsCount ==
  \A i \in Addresses : pop[i].num_living = count_ones(pop[i])

\* C9 witness: an event has returned whose child has another number of
\* living cells than the candidate it was made from.
C9_ChildCountDiffers ==
  /\ event.returned
  /\ Len(event.installs) = 1
  /\ InstalledAt(1) # event.cand
  /\ pop[InstalledAt(1)].num_living # pop[event.cand].num_living
  /\ pop[InstalledAt(1)].num_living > 1

\* C10: a fusion whose immediate symbiosis test fails (one of the parts is
\* at least as fit as the fused seed) continues as sexual reproduction.
C10_FailedSymbiosisContinuesAsSexual ==
  event.symbiosis = "failed" =>
    \E k \in 1 .. Len(event.path) : event.path[k] = "sexual"

\* C11: every seed that fission makes for the population is at least minx
\* columns wide, and fission makes none and falls back to sexual when the
\* candidate is at most minx wide or neither part is at least minx wide.
C11_FissionKeepsMinimumWidth ==
  call.fn = "fission" =>
    LET left == left_cells(call.s0, sparse_col(call.s0))
        right == right_cells(call.s0, sparse_col(call.s0))
    IN  /\ call.out # {}
        /\ \A o \in call.out :
             ~o.fallback => /\ o.s1.xspan >= call.minx
                            /\ Len(o.s1.cells) = o.s1.xspan
        /\ (call.s0.xspan <= call.minx
             \/ (Len(left) < call.minx /\ Len(right) < call.minx))
           => \A o \in call.out : o.fallback

\* C11 witness: fission of a seed three columns wide with min_s_xspan 2 has
\* made a part two columns wide.
C11_PartOfLeastWidth ==
  /\ call.fn = "fission"
  /\ call.minx = 2
  /\ call.s0.xspan = 3
  /\ \E o \in call.out : ~o.fallback /\ o.s1.xspan = 2

\* C12: the seed that fusion builds from a pair that fits max_seed_area is
\* s2.xspan + s3.xspan + 1 wide and max(s2.yspan, s3.yspan) high, and so is
\* its grid.
C12_FusedDimensions ==
  (call.fn = "fusion" /\ call.fits) =>
    /\ call.s4.xspan = call.s2.xspan + call.s3.xspan + 1
    /\ call.s4.yspan = Max(call.s2.yspan, call.s3.yspan)
    /\ Len(call.s4.cells) = call.s4.xspan
    /\ \A x \in 1 .. call.s4.xspan : Len(call.s4.cells[x]) = call.s4.yspan

\* C12 witness: fusion has built a seed from two seeds of different height.
C12_FusedUnequalHeights ==
  /\ call.fn = "fusion"
  /\ call.fits
  /\ call.s2.yspan < call.s3.yspan
  /\ call.s4.num_living > 1

\* C13: for two seeds of the same spans, both spans greater than 1, mate
\* returns, for every axis, split point and order of the parents, a child
\* of the spans of its parents.
C13_ChildHasParentsDimensions ==
  (/\ call.fn = "mate"
   /\ call.seed0.xspan = call.seed1.xspan
   /\ call.seed0.yspan = call.seed1.yspan
   /\ call.seed0.xspan > 1
   /\ call.seed0.yspan > 1) =>
    /\ call.out # {}
    /\ \A r \in call.out :
         /\ r.ok
         /\ r.child.xspan = call.seed0.xspan
         /\ r.child.yspan = call.seed0.yspan
         /\ Len(r.child.cells) = call.seed0.xspan
         /\ \A x \in 1 .. call.seed0.xspan :
              Len(r.child.cells[x]) = call.seed0.yspan

\* C13 witness: mate of two different seeds of 3 by 2 cells has returned a
\* child that differs from both.
C13_MixedChild ==
  /\ call.fn = "mate"
  /\ call.seed0.xspan = 3
  /\ call.seed0.yspan = 2
  /\ call.seed1.xspan = 3
  /\ call.seed1.yspan = 2
  /\ \E r \in call.out :
       r.ok /\ r.child.cells # call.seed0.cells /\ r.child.cells # call.seed1.cells

\* C14: with prob_fission 1.0 and prob_fusion 0.0 every call of symbiotic
\* goes to fission for every draw, no event runs fusion, and no seed built by
\* fusion is installed or stored.
C14_FissionOnly ==
  (mparam.prob_fission = 4 /\ mparam.prob_fusion = 0) =>
    /\ event.op = "symbiotic" => event.path[2] = "fission"
    /\ \A k \in 1 .. Len(event.path) : event.path[k] # "fusion"
    /\ \A k \in 1 .. Len(event.installs) : event.installs[k].by # "fusion"
    /\ fusion_log = <<>>

\* C14 witness: with prob_fission 1.0 and prob_fusion 0.0, symbiotic has
\* returned after the largest draw and fission installed its part.
C14_FissionAfterLargestDraw ==
  /\ mparam.prob_fission = 4
  /\ mparam.prob_fusion = 0
  /\ event.op = "symbiotic"
  /\ event.draw = 3
  /\ event.returned
  /\ Len(event.installs) = 1
  /\ event.installs[1].by = "fission"

\* C15: similarity is the same in both orders, is 0 for seeds of different
\* spans, and for seeds of the same spans is the number of positions with
\* equal cells over the area: in [0, 1] and 1 exactly for identical grids.
C15_SimilarityIsAgreement ==
  call.fn = "similarity" =>
    LET a == call.seed0
        b == call.seed1
        same == a.xspan = b.xspan /\ a.yspan = b.yspan
    IN  /\ RatEq(call.out, call.back)
        /\ ~same => RatEq(call.out, <<0, 1>>)
        /\ same =>
             /\ call.out[2] = a.xspan * a.yspan
             /\ call.out[1] =
                  SumSeq([x \in 1 .. a.xspan |->
                            Cardinality({y \in 1 .. a.yspan :
                                           a.cells[x][y] = b.cells[x][y]})])
        /\ RatLeq(<<0, 1>>, call.out)
        /\ RatLeq(call.out, <<1, 1>>)
        /\ RatEq(call.out, <<1, 1>>) <=> (same /\ a.cells = b.cells)

\* C15 witness: similarity of two seeds of 3 by 2 cells that agree in some
\* positions and not in all.
C15_PartlyAlike ==
  /\ call.fn = "similarity"
  /\ call.seed0.xspan = 3
  /\ call.seed0.yspan = 2
  /\ call.seed1.xspan = 3
  /\ call.seed1.yspan = 2
  /\ call.out[1] = 4

\* C16: find_similar_seeds returns, in address order, exactly the members
\* pop[i] with i # target.address and lo <= target.similarities[i] <= hi,
\* both bounds included; the target itself is never returned.
C16_SimilarSeedsExact ==
  call.fn = "find_similar_seeds" =>
    LET want == {i \in Addresses :
                   /\ i # call.target_seed.address
                   /\ RatLeq(call.lo, call.target_seed.similarities[i])
                   /\ RatLeq(call.target_seed.similarities[i], call.hi)}
    IN  /\ Len(call.out) = Cardinality(want)
        /\ \A k \in 1 .. Len(call.out) :
             /\ call.out[k].address \in want
             /\ call.out[k] = call.pop[call.out[k].address]
        /\ \A k, m \in 1 .. Len(call.out) :
             k < m => call.out[k].address < call.out[m].address

\* C16 witness: the target has similarity 1.0 to itself and to another
\* member, and the search up to 1.0 has returned the other members only.
C16_SelfInRangeLeftOut ==
  /\ call.fn = "find_similar_seeds"
  /\ call.hi = <<1, 1>>
  /\ call.lo = <<1, 2>>
  /\ call.target_seed.similarities[call.target_seed.address] = <<1, 1>>
  /\ Len(call.out) = pop_size - 1
  /\ \E k \in 1 .. Len(call.out) :
       call.target_seed.similarities[call.out[k].address] = <<1, 2>>

C18_GrowthFlooredAtZero ==
  sp.trial > 0 =>
    LET growth1 == Max(0, sp.count1 - sp.living1)
        growth2 == Max(0, sp.count2 - sp.living2)
    IN  /\ growth1 > growth2 => sp.points = <<2, 0>>
        /\ growth2 > growth1 => sp.points = <<0, 2>>
        /\ growth1 = growth2 => sp.points = <<1, 1>>

\* C18 witness: a trial in which both seeds lost cells, one more than the
\* other, was scored as a tie.
C18_BothShrankTie ==
  /\ sp.trial > 0
  /\ sp.count1 < sp.living1
  /\ sp.count2 < sp.living2
  /\ sp.count1 - sp.living1 < sp.count2 - sp.living2
  /\ sp.points = <<1, 1>>

\* C19: score_pair for a seed without living cells runs no trial and
\* returns no scores: it is at its entry or has ended on the assertion.
C19_NoScoreForDeadSeed ==
  (sp.living1 = 0 \/ sp.living2 = 0) =>
    /\ sp.pc \in {"idle", "called", "aborted"}
    /\ sp.trial = 0
    /\ sp.sum1 = 0
    /\ sp.sum2 = 0
    /\ sp.score1 = <<0, 1>>
    /\ sp.score2 = <<0, 1>>

\* C19 witness: score_pair has ended on the assertion for a second seed
\* without living cells while the first seed has some.
C19_AbortedOnSecondSeed ==
  /\ sp.pc = "aborted"
  /\ sp.living1 > 0
  /\ sp.living2 = 0
  /\ sp.num_trials > 1

C21_SerializedLedgerIntact ==
  race.mode = "serialized" =>
    /\ ~race.lost
    /\ \A e, o \in Racers : UnderWay(e) /\ UnderWay(o) => e = o
    /\ (~crashed /\ \A e \in Racers : ~UnderWay(e)) =>
         \A a, b \in Addresses :
           race.scored[a][b] = <<race.occupant[a], race.occupant[b]>>

\* C21 witness: with the steps of two replacements mixed, both found the
\* same seed least fit, both have ended, and the child of one of them was
\* written over by the other and is in no slot.
C21_BothTookTheSameSlot ==
  /\ race.mode = "interleaved"
  /\ \A e \in Racers : race.pc[e] = "done"
  /\ race.worst[1] = race.worst[2]
  /\ race.took[1] = race.took[2]
  /\ race.lost
  /\ \E e \in Racers : \A a \in Addresses : race.occupant[a] # ChildMark(e)

\* C22: with the immediate symbiosis test on, a fused seed that is fitter
\* than both of its parts is kept, stored in the fusion log and reported; a
\* fused seed that is not is followed by sexual reproduction and is not
\* stored; and the test ends the run in neither case.
C22_FusedSeedKeptWhenFitterThanBoth ==
  /\ event.symbiosis = "passed" =>
       /\ event.returned
       /\ Len(fusion_log) = 1
       /\ \A k \in 1 .. Len(event.path) : event.path[k] # "sexual"
  /\ event.symbiosis = "failed" =>
       /\ fusion_log = <<>>
       /\ \E k \in 1 .. Len(event.path) : event.path[k] = "sexual"

\* the sum of column x of s over all rows
ColumnSum(s, x) == SumSeq(s.cells[x])

\* C23: fission of a candidate wider than minx splits it at the first
\* column c of least sum, 0 <= c < xspan; the left part is the columns
\* before c and the right part the columns after c, so the widths of the
\* parts and the split column add up to the width of the candidate and every
\* part is narrower than it.
C23_SplitAtSparsestColumn ==
  (call.fn = "fission" /\ call.s0.xspan > call.minx) =>
    LET s0 == call.s0
        c == sparse_col(s0)
        left == left_cells(s0, c)
        right == right_cells(s0, c)
    IN  /\ c \in 0 .. (s0.xspan - 1)
        /\ \A x \in 1 .. s0.xspan : ColumnSum(s0, c + 1) <= ColumnSum(s0, x)
        /\ \A x \in 1 .. c : ColumnSum(s0, x) > ColumnSum(s0, c + 1)
        /\ left = SubSeq(s0.cells, 1, c)
        /\ right = SubSeq(s0.cells, c + 2, s0.xspan)
        /\ Len(left) + Len(right) + 1 = s0.xspan
        /\ \A o \in call.out : ~o.fallback => o.s1.xspan < s0.xspan

\* the cells of s in a grid yspan high: dead cells below every column
Padded(s, yspan) ==
  [x \in 1 .. s.xspan |-> [y \in 1 .. yspan |-> IF y <= s.yspan THEN s.cells[x][y] ELSE 0]]

\* every column of s has a living cell
EveryColumnLive(s) == \A x \in 1 .. s.xspan : \E y \in 1 .. s.yspan : s.cells[x][y] = 1

\* C24: fission of a seed fused from two parts at least minx wide, with a
\* living cell in every column of both, makes one of the two parts again,
\* padded to the height of the fused seed.
C24_FissionUndoesFusion ==
  (/\ call.fn = "fission of fused"
   /\ EveryColumnLive(call.s2)
   /\ EveryColumnLive(call.s3)
   /\ call.s2.xspan >= call.minx
   /\ call.s3.xspan >= call.minx) =>
    \A o \in call.out :
      /\ ~o.fallback
      /\ o.s1.cells \in {Padded(call.s2, call.s4.yspan), Padded(call.s3, call.s4.yspan)}

\* the addresses that the event before the next state wrote a child to
Replaced == {event'.installs[k].addr : k \in 1 .. Len(event'.installs)}

\* C25: as long as no assertion has ended the run, the two entries of every
\* pair of different seeds add up to 1 and every entry lies between 0 and
\* 1; and an event leaves the entries between two seeds alone when it
\* replaced neither of them.
C25_HistoryOfOthersKept ==
  /\ [](~crashed =>
          /\ \A i, j \in Addresses :
               i # j => pop[i].history[j] + pop[j].history[i] = One
          /\ \A i, j \in Addresses :
               0 <= pop[i].history[j] /\ pop[i].history[j] <= One)
  /\ [][\A i, j \in Addresses :
          (i \notin Replaced /\ j \notin Replaced)
            => pop'[i].history[j] = pop[i].history[j]]_vars

\* C25 witness: an event has returned with one child, which won or lost a
\* contest outright, beside a pair of older seeds whose contest was decided.
C25_DecidedPairBesideChild ==
  /\ event.returned
  /\ Len(event.installs) = 1
  /\ \E i, j \in Addresses \ {InstalledAt(1)} :
       /\ i # j
       /\ pop[i].history[j] = One
       /\ pop[InstalledAt(1)].history[i] \in {0, One}

\* C26: whenever sexual chooses a mate, every similar seed has the spans of
\* the candidate, and random_sample is called, if at all, with a sample size
\* above 0 and below the number of similar seeds.
C26_MatePoolFitsCandidate ==
  \A k \in 1 .. Len(event.mating) :
    LET m == event.mating[k]
    IN  /\ m.pool \subseteq {m.candidate}
        /\ m.sample # "assertion"
        /\ m.sample = "drawn" =>
             (0 < tournament_size /\ tournament_size < m.num_similar_seeds)

\* C26 witness: sexual has chosen among similar seeds after a fused seed of
\* other spans took a slot in the same event.
C26_MateChosenAfterFusion ==
  /\ Len(event.mating) = 1
  /\ event.mating[1].after = 1
  /\ event.mating[1].sample = "drawn"
  /\ event.installs[1].by = "fusion"
  /\ <<event.installs[1].grid.xspan, event.installs[1].grid.yspan>>
       # event.mating[1].candidate

\* the operator that each operator can return the call of
FallbackGraph ==
  {<<"symbiotic", "fission">>, <<"symbiotic", "fusion">>, <<"symbiotic", "sexual">>,
   <<"fission", "sexual">>, <<"fusion", "sexual">>,
   <<"sexual", "variable_asexual">>, <<"sexual", "uniform_asexual">>,
   <<"variable_asexual", "uniform_asexual">>}

\* C27: a reproduction call passes from operator to operator along the
\* fallback graph only, enters no operator twice and makes at most four
\* such transitions; and as long as it has neither returned its report nor
\* been ended by an assertion or exception, the operator it is in can act.
C27_CallEndsWithinFourFallbacks ==
  walk.at # "none" =>
    /\ \A k \in 1 .. (Len(walk.path) - 1) :
         <<walk.path[k], walk.path[k + 1]>> \in FallbackGraph
    /\ \A k, m \in 1 .. Len(walk.path) : walk.path[k] = walk.path[m] => k = m
    /\ Len(walk.path) - 1 <= 4
    /\ walk.at \in Operators \cup {"returned", "aborted"}
    /\ walk.at \in Operators => ENABLED NextWalk

\* C27 witness: a call has returned its report after the four transitions
\* from symbiotic through fusion, sexual and variable asexual to uniform
\* asexual.
C27_LongestFallbackPath ==
  /\ walk.at = "returned"
  /\ walk.path = <<"symbiotic", "fusion", "sexual", "variable_asexual", "uniform_asexual">>

\* C28: when the candidate has at most max_seed_area cells, so has every
\* child that the call puts into the population, through every operator and
\* fallback path.
C28_ChildrenWithinMaximumArea ==
  (walk.at # "none" /\ walk.s0[1] * walk.s0[2] <= walk.max_seed_area) =>
    \A s1 \in walk.children : s1[1] * s1[2] <= walk.max_seed_area

\* C28 witness: a call for a candidate of max_seed_area cells has returned
\* through uniform asexual, after sexual or variable asexual made a child
\* too large.
C28_ChildTooLargeGivenUp ==
  /\ walk.at = "returned"
  /\ walk.s0[1] * walk.s0[2] = walk.max_seed_area
  /\ Len(walk.path) > 1
  /\ walk.path[Len(walk.path)] = "uniform_asexual"
  /\ walk.children = {walk.s0}

\* C29: in the seed s4 that fusion builds, the cells of s2 stand at the
\* left, the cells of s3 stand right of one gap column, the gap column and
\* the cells below the shorter part are dead, and the living cells of s4
\* are as many as those of s2 and s3 together.
C29_FusedLayout ==
  (call.fn = "fusion" /\ call.fits) =>
    LET s2 == call.s2
        s3 == call.s3
        s4 == call.s4
    IN  /\ \A x \in 1 .. s2.xspan : \A y \in 1 .. s2.yspan :
             s4.cells[x][y] = s2.cells[x][y]
        /\ \A x \in 1 .. s3.xspan : \A y \in 1 .. s3.yspan :
             s4.cells[x + s2.xspan + 1][y] = s3.cells[x][y]
        /\ \A y \in 1 .. s4.yspan : s4.cells[s2.xspan + 1][y] = 0
        /\ \A x \in 1 .. s2.xspan : \A y \in (s2.yspan + 1) .. s4.yspan :
             s4.cells[x][y] = 0
        /\ \A x \in 1 .. s3.xspan : \A y \in (s3.yspan + 1) .. s4.yspan :
             s4.cells[x + s2.xspan + 1][y] = 0
        /\ s4.num_living = s2.num_living + s3.num_living

\* C29 witness: fusion has built a seed from a left part higher than the
\* right part, both with living cells.
C29_FusedOverShorterRightPart ==
  /\ call.fn = "fusion"
  /\ call.fits
  /\ call.s2.yspan > call.s3.yspan
  /\ call.s2.num_living > 0
  /\ call.s3.num_living > 0

\* C30: after a returned event the fusion log has one tuple for every fused
\* seed that fusion put into the population, each with s4 the seed joined
\* from its s2 and s3 and with the birth index of the event, and no tuple
\* when the event continued as sexual reproduction.
C30_FusionLogMatchesPopulation ==
  event.returned =>
    /\ Len(fusion_log) =
         Cardinality({k \in 1 .. Len(event.installs) : event.installs[k].by = "fusion"})
    /\ \A k \in 1 .. Len(fusion_log) :
         /\ fusion_log[k].s4.cells = Fused(fusion_log[k].s2, fusion_log[k].s3).cells
         /\ fusion_log[k].n = n - 1
         /\ \E m \in 1 .. Len(event.installs) :
              /\ event.installs[m].by = "fusion"
              /\ event.installs[m].grid = Grid(fusion_log[k].s4)
    /\ (\E k \in 1 .. Len(event.path) : event.path[k] = "sexual") => fusion_log = <<>>

====
